---- MODULE Spec2Model ----
(***************************************************************************)
(* Network topology builder: the attributed graph model (networkx.Graph as *)
(* src/ uses it), the topology generators of modules/topology_builder.py,  *)
(* the metrics snapshot, the analysis / node-failure simulation of         *)
(* main.py, and the link-file checks of check_links.py.                    *)
(*                                                                         *)
(* A graph object is a record                                              *)
(*   node  : the set of node ids                                           *)
(*   edge  : the set of edges, each a set {u, v} of two node ids            *)
(*   nattr : node id -> attribute dictionary                               *)
(*   eattr : edge    -> attribute dictionary                               *)
(* Graph objects live in an object store (heap) and are named by           *)
(* references, so that copying and aliasing are different things. The      *)
(* order in which networkx iterates nodes and edges is not kept: what the  *)
(* operations here return does not depend on it.                           *)
(***************************************************************************)
EXTENDS Integers, Sequences, FiniteSets, TLC

(* ------------------------------ bounds -------------------------------- *)

\* the most node names typed into the custom topology prompt
MaxNodes == 3

\* the longest id list passed to a generator
MaxIds == 4

\* the largest spine_count and leaf_count passed to create_spine_leaf_topology
MaxCount == 3

\* the largest branching_factor passed to create_tree_topology
MaxBranching == 2

\* the longest id list passed to create_tree_topology
MaxTree == 7

\* the longest id list of one group passed to create_hybrid_topology
MaxGroup == 3

\* the longest id list passed to create_mesh_topology with partial=True
MaxMesh == 5

\* the most lines of a links file
MaxLines == 2

\* the random source of a partial mesh: a stream of MaxStream numbers in
\* 0..MaxDraw, read cyclically
MaxStream == 4
MaxDraw == 3

(* ------------------------- the graph object --------------------------- *)

\* the empty attribute dictionary (of a node add_edge creates implicitly)
NoAttrs == [k \in {} |-> k]

\* nx.Graph()
EmptyGraph == [node |-> {}, edge |-> {}, nattr |-> NoAttrs, eattr |-> NoAttrs]

\* dict.update on a function: the keys of g override those of f
Override(f, g) ==
    [k \in DOMAIN f \cup DOMAIN g |-> IF k \in DOMAIN g THEN g[k] ELSE f[k]]

\* G.add_node(n, **attrs): a new node gets attrs, a known node's dictionary is
\* updated with attrs
add_node(G, n, attrs) ==
    [G EXCEPT !.node = @ \cup {n},
              !.nattr = Override(@, (n :> (IF n \in G.node
                                           THEN Override(G.nattr[n], attrs)
                                           ELSE attrs)))]

\* G.add_edge(u, v, **attrs): endpoints that are not nodes yet are added with
\* no attributes; the edge is created, or its dictionary updated
add_edge(G, u, v, attrs) ==
    LET e  == {u, v}
        N1 == IF u \in G.node THEN G.nattr ELSE Override(G.nattr, (u :> NoAttrs))
        N2 == IF v \in G.node \cup {u} THEN N1 ELSE Override(N1, (v :> NoAttrs))
    IN  [node  |-> G.node \cup {u, v},
         edge  |-> G.edge \cup {e},
         nattr |-> N2,
         eattr |-> Override(G.eattr, (e :> (IF e \in G.edge
                                            THEN Override(G.eattr[e], attrs)
                                            ELSE attrs)))]

\* G.has_edge(u, v)
has_edge(G, u, v) == {u, v} \in G.edge

\* G.neighbors(n)
neighbors(G, n) == {m \in G.node : {n, m} \in G.edge}

\* G.degree(n): a self-loop counts twice
degree(G, n) ==
    Cardinality({e \in G.edge : n \in e}) + (IF {n} \in G.edge THEN 1 ELSE 0)

\* G.number_of_nodes(), G.number_of_edges()
number_of_nodes(G) == Cardinality(G.node)
number_of_edges(G) == Cardinality(G.edge)

\* a mutation of remove_node: nothing is removed
remove_node_forgotten(G, n) == G

\* G.remove_node(n): the node and every edge incident to it
remove_node(G, n) ==
    LET keep == {e \in G.edge : n \notin e}
    IN  [node  |-> G.node \ {n},
         edge  |-> keep,
         nattr |-> [m \in G.node \ {n} |-> G.nattr[m]],
         eattr |-> [e \in keep |-> G.eattr[e]]]

(* ------------------- networkx algorithms used by src/ ------------------ *)

\* _plain_bfs(G, source): the nodes reachable from the source, level by level
RECURSIVE plain_bfs(_, _, _)
plain_bfs(G, seen, frontier) ==
    LET next == UNION {neighbors(G, v) : v \in frontier} \ seen
    IN  IF next = {} THEN seen ELSE plain_bfs(G, seen \cup next, next)

\* nx.is_connected(G) raises NetworkXPointlessConcept on the null graph
PointlessConcept(G) == G.node = {}

\* nx.is_connected(G), for a graph with at least one node: the traversal from
\* an arbitrary node reaches every node
is_connected(G) ==
    LET s == CHOOSE v \in G.node : TRUE
    IN  Cardinality(plain_bfs(G, {s}, {s})) = Cardinality(G.node)

\* nx.connected_components(G): one traversal per node not seen yet
RECURSIVE components_from(_, _, _)
components_from(G, seen, acc) ==
    IF G.node \ seen = {} THEN acc
    ELSE LET v == CHOOSE x \in G.node \ seen : TRUE
             c == plain_bfs(G, {v}, {v})
         IN  components_from(G, seen \cup c, acc \cup {c})

connected_components(G) == components_from(G, {}, {})

\* nx.eccentricity of v in a connected graph: the number of levels the
\* traversal from v needs to reach every node
RECURSIVE bfs_levels(_, _, _, _)
bfs_levels(G, seen, frontier, d) ==
    LET next == UNION {neighbors(G, v) : v \in frontier} \ seen
    IN  IF next = {} THEN d ELSE bfs_levels(G, seen \cup next, next, d + 1)

eccentricity(G, v) == bfs_levels(G, {v}, {v}, 0)

\* the largest member of a non-empty set of integers
Max(S) == CHOOSE x \in S : \A y \in S : y <= x
Min(S) == CHOOSE x \in S : \A y \in S : x <= y

\* nx.diameter(G) of a connected graph: the largest eccentricity
diameter(G) == Max({eccentricity(G, v) : v \in G.node})

\* the order in which a set is iterated (an adjacency dictionary's key order)
RECURSIVE SetToSeq(_)
SetToSeq(S) ==
    IF S = {} THEN <<>>
    ELSE LET x == CHOOSE y \in S : TRUE IN <<x>> \o SetToSeq(S \ {x})

\* one iteration of the `while stack` loop of _biconnected_dfs(G,
\* components=False): st holds stack (entries grandparent, parent, children
\* still to visit), discovery, low, visited, root_children and the
\* articulation points found so far
biconnected_dfs_step(G, st) ==
    LET n   == Len(st.stack)
        top == st.stack[n]
        gp  == top.grandparent
        par == top.parent
    IN  IF top.children # <<>>
        THEN LET child == Head(top.children)
                 adv   == [st EXCEPT !.stack[n].children = Tail(@)]
             IN  IF gp = child THEN adv
                 ELSE IF child \in st.visited
                 THEN IF st.discovery[child] <= st.discovery[par]
                      THEN [adv EXCEPT !.low[par] =
                                Min({@, st.discovery[child]})]
                      ELSE adv
                 ELSE LET k == Cardinality(DOMAIN st.discovery)
                      IN  [adv EXCEPT
                             !.low = Override(@, (child :> k)),
                             !.discovery = Override(@, (child :> k)),
                             !.visited = @ \cup {child},
                             !.stack = Append(@,
                                 [grandparent |-> par, parent |-> child,
                                  children |-> SetToSeq(neighbors(G, child))])]
        ELSE LET popped == [st EXCEPT !.stack = SubSeq(@, 1, n - 1)]
             IN  IF n - 1 > 1
                 THEN [popped EXCEPT
                         !.found = IF st.low[par] >= st.discovery[gp]
                                   THEN @ \cup {gp} ELSE @,
                         !.low[gp] = Min({st.low[par], @})]
                 ELSE IF n - 1 = 1
                 THEN [popped EXCEPT !.root_children = @ + 1]
                 ELSE popped

RECURSIVE biconnected_dfs_run(_, _)
biconnected_dfs_run(G, st) ==
    IF st.stack = <<>> THEN st
    ELSE biconnected_dfs_run(G, biconnected_dfs_step(G, st))

\* the `for start in G` loop of _biconnected_dfs: a depth-first search from
\* every node not visited yet; the root is an articulation point when it has
\* more than one child in the search tree
RECURSIVE biconnected_dfs(_, _, _)
biconnected_dfs(G, visited, found) ==
    IF G.node \ visited = {} THEN found
    ELSE LET start == CHOOSE x \in G.node \ visited : TRUE
             st0 == [stack |-> << [grandparent |-> start, parent |-> start,
                                   children |-> SetToSeq(neighbors(G, start))] >>,
                     discovery |-> (start :> 0),
                     low |-> (start :> 0),
                     visited |-> visited \cup {start},
                     root_children |-> 0,
                     found |-> found]
             st  == biconnected_dfs_run(G, st0)
         IN  biconnected_dfs(G, st.visited,
                 IF st.root_children > 1 THEN st.found \cup {start} ELSE st.found)

\* nx.articulation_points(G)
articulation_points(G) == biconnected_dfs(G, {}, {})

(* quotients: a Python float quotient is kept as the exact fraction <<n, d>> *)
(* in lowest terms, d > 0                                                  *)

RECURSIVE GCD(_, _)
GCD(a, b) == IF b = 0 THEN a ELSE GCD(b, a % b)

Frac(n, d) == LET g == GCD(n, d) IN <<n \div g, d \div g>>

FracAdd(p, q) == Frac(p[1] * q[2] + q[1] * p[2], p[2] * q[2])

\* nx.density(G) of an undirected graph
density(G) ==
    LET n == number_of_nodes(G)
        m == number_of_edges(G)
    IN  IF m = 0 \/ n <= 1 THEN Frac(0, 1)
        ELSE Frac(2 * m, n * (n - 1))

\* nx.clustering(G)[v]: twice the triangles through v over d * (d - 1), d the
\* number of neighbours other than v; 0 when there is no triangle
clustering(G, v) ==
    LET vs == neighbors(G, v) \ {v}
        d  == Cardinality(vs)
        t2 == Cardinality({p \in vs \X vs : p[1] # p[2] /\ {p[1], p[2]} \in G.edge})
    IN  IF t2 = 0 THEN Frac(0, 1) ELSE Frac(t2, d * (d - 1))

\* sum(c) over the nodes of S
RECURSIVE clustering_sum(_, _)
clustering_sum(G, S) ==
    IF S = {} THEN Frac(0, 1)
    ELSE LET v == CHOOSE x \in S : TRUE
         IN  FracAdd(clustering(G, v), clustering_sum(G, S \ {v}))

\* nx.average_clustering(G) of a graph with at least one node
average_clustering(G) ==
    LET total == clustering_sum(G, G.node)
    IN  Frac(total[1], total[2] * number_of_nodes(G))

\* sum(degrees.values()) over the nodes of S
RECURSIVE degree_sum(_, _)
degree_sum(G, S) ==
    IF S = {} THEN 0
    ELSE LET v == CHOOSE x \in S : TRUE
         IN  degree(G, v) + degree_sum(G, S \ {v})

\* a diameter: a number, or float('inf')
Finite(d) == [finite |-> TRUE, value |-> d]
Infinite == [finite |-> FALSE, value |-> 0]

\* a > b on diameters
DiameterGreater(a, b) ==
    IF ~a.finite THEN b.finite
    ELSE b.finite /\ a.value > b.value

\* add_topology_metrics(G). The dictionary literal evaluates nx.is_connected
\* for the diameter entry, which raises on a graph with no node: the result
\* is [raised |-> TRUE] then, and the metrics dictionary otherwise
add_topology_metrics(G) ==
    IF PointlessConcept(G) THEN [raised |-> TRUE]
    ELSE [raised |-> FALSE,
          node_count |-> number_of_nodes(G),
          edge_count |-> number_of_edges(G),
          density |-> density(G),
          diameter |-> IF is_connected(G) THEN Finite(diameter(G)) ELSE Infinite,
          average_clustering |-> average_clustering(G),
          is_connected |-> is_connected(G),
          avg_degree |-> Frac(degree_sum(G, G.node), number_of_nodes(G)),
          max_degree |-> Max({degree(G, v) : v \in G.node}),
          min_degree |-> Min({degree(G, v) : v \in G.node})]

(* ---------------- generators: modules/topology_builder.py -------------- *)

\* the keyword arguments of an add_edge call
EdgeAttrs(bw, mtu, lt) ==
    [bandwidth |-> bw, mtu |-> mtu, up |-> TRUE, link_type |-> lt]

\* a mutation of star_loop: each id is linked to the id before it
RECURSIVE star_loop_chained(_, _, _)
star_loop_chained(G, nodes, i) ==
    IF i > Len(nodes) THEN G
    ELSE LET G1 == add_node(G, nodes[i],
                            [role |-> "endpoint", device_type |-> "host"])
         IN  star_loop_chained(add_edge(G1, nodes[i - 1], nodes[i],
                                        EdgeAttrs(1000, 1500, "ethernet")),
                               nodes, i + 1)

\* for node in nodes[1:] of create_star_topology, from index i on
RECURSIVE star_loop(_, _, _)
star_loop(G, nodes, i) ==
    IF i > Len(nodes) THEN G
    ELSE LET G1 == add_node(G, nodes[i],
                            [role |-> "endpoint", device_type |-> "host"])
         IN  star_loop(add_edge(G1, nodes[1], nodes[i],
                                EdgeAttrs(1000, 1500, "ethernet")),
                       nodes, i + 1)

create_star_topology(nodes) ==
    IF Len(nodes) < 2 THEN EmptyGraph
    ELSE star_loop(add_node(EmptyGraph, nodes[1],
                            [role |-> "hub", device_type |-> "switch"]),
                   nodes, 2)

\* for node in nodes: G.add_node(node, device_type=dt), from index i on
RECURSIVE add_nodes_loop(_, _, _, _)
add_nodes_loop(G, nodes, dt, i) ==
    IF i > Len(nodes) THEN G
    ELSE add_nodes_loop(add_node(G, nodes[i], [device_type |-> dt]),
                        nodes, dt, i + 1)

\* a mutation of ring_loop: range(len(nodes) - 1), the ring is not closed
RECURSIVE ring_loop_open(_, _, _)
ring_loop_open(G, nodes, i) ==
    IF i > Len(nodes) - 1 THEN G
    ELSE ring_loop_open(add_edge(G, nodes[i], nodes[i + 1],
                                 EdgeAttrs(1000, 1500, "serial")),
                        nodes, i + 1)

\* for i in range(len(nodes)) of create_ring_topology; i counts from 1 here,
\* so nodes[(i + 1) % len(nodes)] of the code is nodes[(i % Len) + 1]
RECURSIVE ring_loop(_, _, _)
ring_loop(G, nodes, i) ==
    IF i > Len(nodes) THEN G
    ELSE ring_loop(add_edge(G, nodes[i], nodes[(i % Len(nodes)) + 1],
                            EdgeAttrs(1000, 1500, "serial")),
                   nodes, i + 1)

create_ring_topology(nodes) ==
    IF Len(nodes) < 3 THEN EmptyGraph
    ELSE ring_loop(add_nodes_loop(EmptyGraph, nodes, "router", 1), nodes, 1)

\* a mutation of full_mesh_loop: nodes[i+2:], the next id is skipped
RECURSIVE full_mesh_loop_skipping(_, _, _, _)
full_mesh_loop_skipping(G, nodes, i, j) ==
    IF i > Len(nodes) THEN G
    ELSE IF j > Len(nodes) THEN full_mesh_loop_skipping(G, nodes, i + 1, i + 3)
    ELSE full_mesh_loop_skipping(add_edge(G, nodes[i], nodes[j],
                                          EdgeAttrs(1000, 1500, "ethernet")),
                                 nodes, i, j + 1)

\* the full mesh loops: for i, node1 in enumerate(nodes): for node2 in
\* nodes[i+1:], from the pair (i, j) on
RECURSIVE full_mesh_loop(_, _, _, _)
full_mesh_loop(G, nodes, i, j) ==
    IF i > Len(nodes) THEN G
    ELSE IF j > Len(nodes) THEN full_mesh_loop(G, nodes, i + 1, i + 2)
    ELSE full_mesh_loop(add_edge(G, nodes[i], nodes[j],
                                 EdgeAttrs(1000, 1500, "ethernet")),
                        nodes, i, j + 1)

\* create_mesh_topology(nodes, partial=False)
create_full_mesh(nodes) ==
    full_mesh_loop(add_nodes_loop(EmptyGraph, nodes, "router", 1), nodes, 1, 2)

\* the loops of create_tree_topology. t holds G, remaining_nodes and
\* next_level_nodes; tree_children is `for _ in range(children_count)`
RECURSIVE tree_children(_, _, _, _)
tree_children(t, parent, level, count) ==
    IF count <= 0 \/ t.remaining = <<>> THEN t
    ELSE LET child == Head(t.remaining)
             G1 == add_node(t.G, child, [role |-> "branch",
                              device_type |-> "switch", level |-> level])
             G2 == add_edge(G1, parent, child, EdgeAttrs(1000, 1500, "ethernet"))
         IN  tree_children([G |-> G2, remaining |-> Tail(t.remaining),
                            next_level |-> Append(t.next_level, child)],
                           parent, level, count - 1)

\* a mutation of tree_parents: every parent is given one child at most
RECURSIVE tree_parents_single(_, _, _, _, _)
tree_parents_single(t, current, level, bf, i) ==
    IF i > Len(current) THEN t
    ELSE tree_parents_single(tree_children(t, current[i], level, 1),
                             current, level, bf, i + 1)

\* for parent in current_level_nodes, from index i on
RECURSIVE tree_parents(_, _, _, _, _)
tree_parents(t, current, level, bf, i) ==
    IF i > Len(current) THEN t
    ELSE LET count == IF bf < Len(t.remaining) THEN bf ELSE Len(t.remaining)
         IN  tree_parents(tree_children(t, current[i], level, count),
                          current, level, bf, i + 1)

\* while remaining_nodes and current_level_nodes
RECURSIVE tree_levels(_, _, _, _, _)
tree_levels(G, remaining, current, level, bf) ==
    IF remaining = <<>> \/ current = <<>> THEN G
    ELSE LET t == tree_parents([G |-> G, remaining |-> remaining,
                                next_level |-> <<>>], current, level, bf, 1)
         IN  tree_levels(t.G, t.remaining, t.next_level, level + 1, bf)

create_tree_topology(nodes, branching_factor) ==
    IF nodes = <<>> THEN EmptyGraph
    ELSE tree_levels(add_node(EmptyGraph, nodes[1],
                         [role |-> "root", device_type |-> "switch", level |-> 0]),
                     Tail(nodes), <<nodes[1]>>, 1, branching_factor)

\* [f"{prefix}{i+1}" for i in range(count)]
NumberedNames(prefix, count) ==
    [i \in 1..(IF count > 0 THEN count ELSE 0) |-> prefix \o ToString(i)]

\* for node in names: G.add_node(node, **attrs), from index i on
RECURSIVE add_nodes_attrs(_, _, _, _)
add_nodes_attrs(G, names, attrs, i) ==
    IF i > Len(names) THEN G
    ELSE add_nodes_attrs(add_node(G, names[i], attrs), names, attrs, i + 1)

\* a mutation of spine_leaf_core: spine i is linked to leaf i only
RECURSIVE spine_leaf_core_paired(_, _, _, _, _)
spine_leaf_core_paired(G, spines, leaves, i, j) ==
    IF i > Len(spines) THEN G
    ELSE IF i > Len(leaves) THEN G
    ELSE spine_leaf_core_paired(add_edge(G, spines[i], leaves[i],
                                         EdgeAttrs(10000, 9000, "ethernet")),
                                spines, leaves, i + 1, j)

\* for spine in spine_nodes: for leaf in leaf_nodes: add_edge, from (i, j) on
RECURSIVE spine_leaf_core(_, _, _, _, _)
spine_leaf_core(G, spines, leaves, i, j) ==
    IF i > Len(spines) THEN G
    ELSE IF j > Len(leaves) THEN spine_leaf_core(G, spines, leaves, i + 1, 1)
    ELSE spine_leaf_core(add_edge(G, spines[i], leaves[j],
                                  EdgeAttrs(10000, 9000, "ethernet")),
                         spines, leaves, i, j + 1)

\* the number of hosts create_spine_leaf_topology attaches to every leaf
host_count == 2

\* for leaf in leaf_nodes: for i in range(host_count), from (j, i) on
RECURSIVE spine_leaf_hosts(_, _, _, _)
spine_leaf_hosts(G, leaves, j, i) ==
    IF j > Len(leaves) THEN G
    ELSE IF i > host_count THEN spine_leaf_hosts(G, leaves, j + 1, 1)
    ELSE LET host == leaves[j] \o "-host" \o ToString(i)
             G1 == add_node(G, host, [role |-> "host", device_type |-> "server",
                                      tier |-> "access"])
         IN  spine_leaf_hosts(add_edge(G1, leaves[j], host,
                                       EdgeAttrs(1000, 1500, "ethernet")),
                              leaves, j, i + 1)

create_spine_leaf_topology(spine_count, leaf_count) ==
    LET spine_nodes == NumberedNames("spine", spine_count)
        leaf_nodes  == NumberedNames("leaf", leaf_count)
        G1 == add_nodes_attrs(EmptyGraph, spine_nodes,
                 [role |-> "spine", device_type |-> "switch", tier |-> "spine"], 1)
        G2 == add_nodes_attrs(G1, leaf_nodes,
                 [role |-> "leaf", device_type |-> "switch", tier |-> "leaf"], 1)
        G3 == spine_leaf_core(G2, spine_nodes, leaf_nodes, 1, 1)
    IN  spine_leaf_hosts(G3, leaf_nodes, 1, 1)

\* for i in range(len(nodes) - 1) of create_bus_topology, i from 1 here
RECURSIVE bus_loop(_, _, _)
bus_loop(G, nodes, i) ==
    IF i > Len(nodes) - 1 THEN G
    ELSE bus_loop(add_edge(G, nodes[i], nodes[i + 1],
                           EdgeAttrs(100, 1500, "coax")),
                  nodes, i + 1)

\* a mutation of create_bus_topology: the length check is missing
create_bus_topology_unguarded(nodes) ==
    bus_loop(add_nodes_loop(EmptyGraph, nodes, "workstation", 1), nodes, 1)

create_bus_topology(nodes) ==
    IF Len(nodes) < 2 THEN EmptyGraph
    ELSE bus_loop(add_nodes_loop(EmptyGraph, nodes, "workstation", 1), nodes, 1)

\* the n-th number the random source yields
Draw(stream, n) == stream[((n - 1) % Len(stream)) + 1]

\* Random._randbelow(n), on the number d drawn
randbelow(d, n) == d % n

\* random.sample(population, k), drawing from the n-th number on: k times, a
\* member of the pool is picked and replaced by the pool's last member
RECURSIVE random_sample(_, _, _, _)
random_sample(pool, k, stream, n) ==
    IF k <= 0 THEN <<>>
    ELSE LET j == randbelow(Draw(stream, n), Len(pool)) + 1
             moved == [pool EXCEPT ![j] = pool[Len(pool)]]
         IN  <<pool[j]>> \o random_sample(SubSeq(moved, 1, Len(pool) - 1),
                                          k - 1, stream, n + 1)

\* random.choice(seq), on the number d drawn
random_choice(seq, d) == seq[randbelow(d, Len(seq)) + 1]

\* [n for n in nodes if n != node]
others(nodes, node) == SelectSeq(nodes, LAMBDA n : n # node)

\* what random.sample and random.choice return to create_mesh_topology(nodes,
\* partial=True) when the random source yields the stream: sample[i] for
\* nodes[i], choice[i][k] for its k-th target
RandomSource(nodes, stream) ==
    LET count == Min({3, Len(nodes) - 1})
        first(i) == (i - 1) * 2 * count
    IN  [sample |-> [i \in 1..Len(nodes) |->
                        random_sample(others(nodes, nodes[i]), count, stream,
                                      first(i) + 1)],
         choice |-> [i \in 1..Len(nodes) |->
                        [k \in 1..count |->
                            random_choice(<<100, 1000, 10000>>,
                                          Draw(stream, first(i) + count + k))]]]

\* a mutation of partial_mesh_loop: has_edge is not asked
RECURSIVE partial_mesh_loop_overwriting(_, _, _, _, _)
partial_mesh_loop_overwriting(G, nodes, rnd, i, k) ==
    IF i > Len(nodes) THEN G
    ELSE IF k > Len(rnd.sample[i])
    THEN partial_mesh_loop_overwriting(G, nodes, rnd, i + 1, 1)
    ELSE partial_mesh_loop_overwriting(
             add_edge(G, nodes[i], rnd.sample[i][k],
                      EdgeAttrs(rnd.choice[i][k], 1500, "ethernet")),
             nodes, rnd, i, k + 1)

\* the partial mesh loops: for node in nodes: for target in targets, from
\* (i, k) on. rnd is the random source: rnd.sample[i] is what random.sample
\* returns for nodes[i], rnd.choice[i][k] what random.choice returns for its
\* k-th target
RECURSIVE partial_mesh_loop(_, _, _, _, _)
partial_mesh_loop(G, nodes, rnd, i, k) ==
    IF i > Len(nodes) THEN G
    ELSE IF k > Len(rnd.sample[i]) THEN partial_mesh_loop(G, nodes, rnd, i + 1, 1)
    ELSE LET target == rnd.sample[i][k]
         IN  partial_mesh_loop(
                 IF ~has_edge(G, nodes[i], target)
                 THEN add_edge(G, nodes[i], target,
                               EdgeAttrs(rnd.choice[i][k], 1500, "ethernet"))
                 ELSE G,
                 nodes, rnd, i, k + 1)

\* create_mesh_topology(nodes, partial=True)
create_partial_mesh(nodes, rnd) ==
    partial_mesh_loop(add_nodes_loop(EmptyGraph, nodes, "router", 1),
                      nodes, rnd, 1, 1)

create_mesh_topology(nodes, partial, rnd) ==
    IF partial THEN create_partial_mesh(nodes, rnd) ELSE create_full_mesh(nodes)

\* nx.union(G, H) raises NetworkXError unless the node sets are disjoint
union_raises(G, H) == G.node \cap H.node # {}

\* nx.union(G, H) of graphs with disjoint node sets
union(G, H) ==
    [node  |-> G.node \cup H.node,
     edge  |-> G.edge \cup H.edge,
     nattr |-> Override(G.nattr, H.nattr),
     eattr |-> Override(G.eattr, H.eattr)]

\* a mutation of Prefix: the whole list
PrefixWhole(nodes, count) == nodes

\* the first count members of a list: nodes[:count]
Prefix(nodes, count) ==
    SubSeq(nodes, 1, IF Len(nodes) < count THEN Len(nodes) ELSE count)

\* the subgraph create_hybrid_topology builds for one group
hybrid_subgraph(group_type, nodes) ==
    IF group_type = "core" THEN create_full_mesh(nodes)
    ELSE IF group_type = "distribution" THEN create_ring_topology(nodes)
    ELSE IF group_type = "access" THEN create_star_topology(nodes)
    ELSE create_bus_topology(nodes)

\* for group_type, nodes in node_groups.items(), over the keys in order; r is
\* [raised, G]
RECURSIVE hybrid_sections(_, _, _, _)
hybrid_sections(r, node_groups, order, i) ==
    IF i > Len(order) \/ r.raised THEN r
    ELSE LET sub == hybrid_subgraph(order[i], node_groups[order[i]])
         IN  IF union_raises(r.G, sub) THEN [raised |-> TRUE, G |-> r.G]
             ELSE hybrid_sections([raised |-> FALSE, G |-> union(r.G, sub)],
                                  node_groups, order, i + 1)

\* for a in as: for b in bs: G.add_edge(a, b, **attrs), from (i, j) on
RECURSIVE connect_all(_, _, _, _, _, _)
connect_all(G, as, bs, attrs, i, j) ==
    IF i > Len(as) THEN G
    ELSE IF j > Len(bs) THEN connect_all(G, as, bs, attrs, i + 1, 1)
    ELSE connect_all(add_edge(G, as[i], bs[j], attrs), as, bs, attrs, i, j + 1)

\* create_hybrid_topology(node_groups): node_groups maps group names to id
\* lists. The result is [raised, G]
create_hybrid_topology(node_groups) ==
    LET r  == hybrid_sections([raised |-> FALSE, G |-> EmptyGraph], node_groups,
                              SetToSeq(DOMAIN node_groups), 1)
        G1 == IF "core" \in DOMAIN node_groups
                 /\ "distribution" \in DOMAIN node_groups
              THEN connect_all(r.G, Prefix(node_groups["core"], 2),
                               Prefix(node_groups["distribution"], 2),
                               EdgeAttrs(10000, 1500, "fiber"), 1, 1)
              ELSE r.G
        G2 == IF "distribution" \in DOMAIN node_groups
                 /\ "access" \in DOMAIN node_groups
              THEN connect_all(G1, node_groups["distribution"],
                               Prefix(node_groups["access"], 1),
                               EdgeAttrs(1000, 1500, "ethernet"), 1, 1)
              ELSE G1
    IN  IF r.raised THEN r ELSE [raised |-> FALSE, G |-> G2]

\* kwargs.get(key, default)
Get(kwargs, key, default) ==
    IF key \in DOMAIN kwargs THEN kwargs[key] ELSE default

\* the members of the enum TopologyType
TopologyType ==
    {"star", "ring", "mesh", "tree", "bus", "hybrid", "spine_leaf"}

\* the node_groups build_topology_by_type passes when the caller gives none
DefaultGroups ==
    [core |-> <<"core1", "core2">>,
     distribution |-> <<"dist1", "dist2", "dist3">>,
     access |-> <<"access1", "host1", "host2", "host3">>]

\* build_topology_by_type(topology_type, nodes, **kwargs); nodes is
\* [given, list], given = FALSE standing for None. The result is [raised, G,
\* unsupported], unsupported telling that "Unsupported topology type" was
\* logged (line 274)
build_topology_by_type(topology_type, nodes, kwargs, rnd) ==
    LET ok(G) == [raised |-> FALSE, G |-> G, unsupported |-> FALSE]
        list  == IF nodes.given THEN nodes.list
                 ELSE NumberedNames("node", Get(kwargs, "node_count", 5))
    IN  IF ~nodes.given /\ topology_type = "spine_leaf"
        THEN ok(create_spine_leaf_topology(Get(kwargs, "spine_count", 2),
                                           Get(kwargs, "leaf_count", 4)))
        ELSE IF topology_type = "star" THEN ok(create_star_topology(list))
        ELSE IF topology_type = "ring" THEN ok(create_ring_topology(list))
        ELSE IF topology_type = "mesh"
        THEN ok(create_mesh_topology(list, Get(kwargs, "partial", FALSE), rnd))
        ELSE IF topology_type = "tree"
        THEN ok(create_tree_topology(list, Get(kwargs, "branching_factor", 2)))
        ELSE IF topology_type = "bus" THEN ok(create_bus_topology(list))
        ELSE IF topology_type = "hybrid"
        THEN LET r == create_hybrid_topology(
                          Get(kwargs, "node_groups", DefaultGroups))
             IN  [raised |-> r.raised, G |-> r.G, unsupported |-> FALSE]
        ELSE [raised |-> FALSE, G |-> EmptyGraph, unsupported |-> TRUE]

\* size_configs of quick_topology; an unknown size is "medium"
size_config(size) ==
    IF size = "small"
    THEN [node_count |-> 4, spine_count |-> 2, leaf_count |-> 2]
    ELSE IF size = "large"
    THEN [node_count |-> 10, spine_count |-> 3, leaf_count |-> 6]
    ELSE [node_count |-> 6, spine_count |-> 2, leaf_count |-> 4]

\* topology_map of quick_topology: the keyword arguments of each name
quick_kwargs(topology_name, config) ==
    IF topology_name = "mesh"
    THEN [node_count |-> config.node_count, partial |-> TRUE]
    ELSE IF topology_name = "tree"
    THEN [node_count |-> config.node_count, branching_factor |-> 2]
    ELSE IF topology_name = "spine_leaf"
    THEN [spine_count |-> config.spine_count, leaf_count |-> config.leaf_count]
    ELSE IF topology_name = "hybrid" THEN NoAttrs
    ELSE [node_count |-> config.node_count]

\* quick_topology(topology_name, size): [raised, G]
quick_topology(topology_name, size, rnd) ==
    IF topology_name \notin TopologyType
    THEN [raised |-> FALSE, G |-> EmptyGraph]
    ELSE build_topology_by_type(topology_name,
                                [given |-> FALSE, list |-> <<>>],
                                quick_kwargs(topology_name, size_config(size)),
                                rnd)

(* ------------------- analysis and simulation: main.py ------------------ *)

\* references to graph objects
G_ref == "G"
G_failed_ref == "G_failed"
None == "None"

\* a mutation of graph_copy: the "copy" is the object itself
graph_copy_alias(h, ref) == [heap |-> h, ref |-> ref]

\* G.copy(): a new object holding the nodes, the edges and copies of the
\* attribute dictionaries of h[ref]; [heap, ref] names the new object
graph_copy(h, ref) ==
    [heap |-> Override(h, (G_failed_ref :> h[ref])), ref |-> G_failed_ref]

\* analyze_topology(G): the metrics, and the articulation points when the
\* graph is connected; [raised |-> TRUE] when add_topology_metrics raises.
\* The average path length and the most connected node are printed only
\* and change no state.
analyze_topology(G) ==
    LET metrics == add_topology_metrics(G)
    IN  IF metrics.raised THEN [op |-> "analyze", raised |-> TRUE]
        ELSE [op |-> "analyze", raised |-> FALSE, metrics |-> metrics,
              articulation_listed |-> is_connected(G),
              articulation_points |->
                  IF is_connected(G) THEN articulation_points(G) ELSE {}]

\* a mutation of node_in_topology: the check is missing
node_in_topology_unchecked(G, node_to_fail) == TRUE

\* node_to_fail in G.nodes()
node_in_topology(G, node_to_fail) == node_to_fail \in G.node

\* simulate_failure(G, node_to_fail) on the object store h: [heap, report].
\* impact is "CRITICAL" (line 130), "remains_connected" (line 136) or "none"
\* (nothing was classified: the node was not found, or nx.is_connected raised)
simulate_failure(h, ref, node_to_fail) ==
    IF ~node_in_topology(h[ref], node_to_fail)
    THEN [heap |-> h,
          report |-> [op |-> "simulate_failure", node |-> node_to_fail,
                      found |-> FALSE, raised |-> FALSE, impact |-> "none"]]
    ELSE LET cp  == graph_copy(h, ref)
             nbr == neighbors(cp.heap[cp.ref], node_to_fail)
             h2  == [cp.heap EXCEPT ![cp.ref] = remove_node(@, node_to_fail)]
             G   == h2[ref]
             G_failed == h2[cp.ref]
             base == [op |-> "simulate_failure", node |-> node_to_fail,
                      found |-> TRUE, neighbors |-> nbr]
             raise == [heap |-> h2,
                       report |-> Override(base, [raised |-> TRUE,
                                                  impact |-> "none"])]
         IN  IF PointlessConcept(G) THEN raise
             ELSE IF is_connected(G)
             THEN IF PointlessConcept(G_failed) THEN raise
                  ELSE IF ~is_connected(G_failed)
                  THEN [heap |-> h2,
                        report |-> Override(base,
                            [raised |-> FALSE, impact |-> "CRITICAL",
                             components |-> connected_components(G_failed)])]
                  ELSE [heap |-> h2,
                        report |-> Override(base,
                            [raised |-> FALSE, impact |-> "remains_connected",
                             diameter_increased |->
                                 DiameterGreater(Finite(diameter(G_failed)),
                                                 Finite(diameter(G)))])]
             ELSE IF PointlessConcept(G_failed) THEN raise
             ELSE [heap |-> h2,
                   report |-> Override(base,
                       [raised |-> FALSE, impact |-> "remains_connected",
                        diameter_increased |->
                            is_connected(G_failed)
                            /\ DiameterGreater(Finite(diameter(G_failed)),
                                               Infinite)])]

(* ---------------------- link checks: check_links.py -------------------- *)

\* A string is a sequence of tokens: the characters ' ' (any whitespace, the
\* end of line included), '#', '-', ':' and words, which hold none of these
\* characters.

\* str.lower() on a token, and on a string
lower_token(t) ==
    IF t = "G0" THEN "g0"
    ELSE IF t = "R1" THEN "r1"
    ELSE IF t = "R2" THEN "r2"
    ELSE IF t = "R9" THEN "r9"
    ELSE t

lower(str) == [i \in DOMAIN str |-> lower_token(str[i])]

\* str.lstrip(), str.rstrip()
RECURSIVE lstrip(_)
lstrip(str) ==
    IF str # <<>> /\ Head(str) = " " THEN lstrip(Tail(str)) ELSE str

RECURSIVE rstrip(_)
rstrip(str) ==
    IF str # <<>> /\ str[Len(str)] = " "
    THEN rstrip(SubSeq(str, 1, Len(str) - 1))
    ELSE str

\* a mutation of strip: nothing is stripped
strip_nothing(str) == str

\* str.strip()
strip(str) == rstrip(lstrip(str))

\* str.find(c), from index i on: the first index of the character, 0 if none
RECURSIVE find(_, _, _)
find(str, c, i) ==
    IF i > Len(str) THEN 0
    ELSE IF str[i] = c THEN i
    ELSE find(str, c, i + 1)

\* c in str
contains(str, c) == find(str, c, 1) # 0

\* str.split(c, 1) of a string that contains c
split_once(str, c) ==
    LET k == find(str, c, 1)
    IN  <<SubSeq(str, 1, k - 1), SubSeq(str, k + 1, Len(str))>>

\* str.startswith(c)
startswith(str, c) == str # <<>> /\ Head(str) = c

\* the `for line in f` loop of read_links, from line i on
RECURSIVE read_links_loop(_, _, _)
read_links_loop(lines, links, i) ==
    IF i > Len(lines) THEN links
    ELSE LET line == strip(lines[i])
         IN  IF line = <<>> \/ startswith(line, "#")
             THEN read_links_loop(lines, links, i + 1)
             ELSE IF ~contains(line, "-")
             THEN read_links_loop(lines, links, i + 1)
             ELSE LET parts == split_once(line, "-")
                  IN  read_links_loop(lines,
                          Append(links, <<strip(parts[1]), strip(parts[2])>>),
                          i + 1)

\* read_links(links_file); file is [exists, lines]
read_links(file) ==
    IF ~file.exists THEN <<>> ELSE read_links_loop(file.lines, <<>>, 1)

\* the body of `for ep in [ep1, ep2]` of check_links_vs_configs; acc holds
\* the endpoints reported invalid, missing_devices and missing_interfaces
check_endpoint(parsed_configs, ep, acc) ==
    IF ~contains(ep, ":")
    THEN [acc EXCEPT !.invalid = Append(@, ep)]
    ELSE LET parts == split_once(ep, ":")
             dev   == strip(parts[1])
             iface == lower(strip(parts[2]))
         IN  IF dev \notin DOMAIN parsed_configs
             THEN [acc EXCEPT !.missing_devices = @ \cup {dev}]
             ELSE LET interfaces ==
                          IF "interfaces" \in DOMAIN parsed_configs[dev]
                          THEN parsed_configs[dev].interfaces
                          ELSE {}
                      normalized_ifaces == {lower(k) : k \in interfaces}
                  IN  IF iface \notin normalized_ifaces
                      THEN [acc EXCEPT !.missing_interfaces =
                                Append(@, dev \o <<":">> \o iface)]
                      ELSE acc

\* for ep1, ep2 in links, from link i on
RECURSIVE check_links_loop(_, _, _, _)
check_links_loop(parsed_configs, links, acc, i) ==
    IF i > Len(links) THEN acc
    ELSE check_links_loop(parsed_configs, links,
             check_endpoint(parsed_configs, links[i][2],
                 check_endpoint(parsed_configs, links[i][1], acc)),
             i + 1)

\* check_links_vs_configs(parsed_configs, links): what it prints
check_links_vs_configs(parsed_configs, links) ==
    check_links_loop(parsed_configs, links,
                     [invalid |-> <<>>, missing_devices |-> {},
                      missing_interfaces |-> <<>>], 1)

(* ----------------------- the interactive session ----------------------- *)

VARIABLES
    pc,                 \* where the session is: "menu", "custom", "exit", "error"
    heap,               \* the object store: reference -> graph object
    current_topology,   \* interactive_menu's variable: None or a reference
    report,             \* what the last operation reported
    args                \* the arguments of a generator call (library runs)

vars == <<pc, heap, current_topology, report, args>>

NoArgs == [call |-> "none"]

\* a random source for the calls that draw nothing
NoRandom == [sample |-> <<>>, choice |-> <<>>]

\* the shapes and sizes typed into the create menu. Not drawn: mesh, which
\* quick_topology builds from random samples, and the size large
QuickNames == {"star", "ring", "tree", "bus", "spine_leaf", "hybrid"}
QuickSizes == {"small", "medium"}

\* a node name that is never a node of the topology
Absent == "nope"

Init ==
    /\ pc = "menu"
    /\ heap = NoAttrs
    /\ current_topology = None
    /\ report = [op |-> "start"]
    /\ args = NoArgs

\* choice 1, topology 1..7: current_topology = quick_topology(name, size)
MenuCreateQuick(name, size) ==
    /\ pc = "menu"
    /\ LET r == quick_topology(name, size, NoRandom)
       IN  /\ ~r.raised
           /\ heap' = (G_ref :> r.G)
           /\ current_topology' = G_ref
           /\ report' = [op |-> "create", name |-> name, size |-> size]
    /\ UNCHANGED <<pc, args>>

\* choice 1 with a topology type that is none of 1..9, or custom topology
\* with no node names: create_topology_menu returns None
MenuCreateNothing ==
    /\ pc = "menu"
    /\ heap' = NoAttrs
    /\ current_topology' = None
    /\ report' = [op |-> "create_nothing"]
    /\ UNCHANGED <<pc, args>>

\* choice 1, topology 8 with k node names: create_custom_topology adds the
\* nodes and waits for connections. The call's result replaces
\* current_topology whatever it is, so the old object is released here
MenuCreateCustom(k) ==
    /\ pc = "menu"
    /\ pc' = "custom"
    /\ heap' = (G_ref :> add_nodes_loop(EmptyGraph, NumberedNames("R", k),
                                         "router", 1))
    /\ current_topology' = None
    /\ report' = [op |-> "custom"]
    /\ UNCHANGED args

\* a connection line node1-node2 naming two nodes not connected yet (node1
\* and node2 may be the same node: the edge is a self-loop then); the
\* bandwidth prompt is left blank
CustomConnection(node1, node2) ==
    /\ pc = "custom"
    /\ node1 \in heap[G_ref].node /\ node2 \in heap[G_ref].node
    /\ ~has_edge(heap[G_ref], node1, node2)
    /\ heap' = [heap EXCEPT ![G_ref] =
                    add_edge(@, node1, node2, EdgeAttrs(1000, 1500, "ethernet"))]
    /\ UNCHANGED <<pc, current_topology, report, args>>

\* a connection line that is skipped: no '-', an unknown node, or a pair
\* already connected
CustomSkipped(node1, node2) ==
    /\ pc = "custom"
    /\ \/ node1 \notin heap[G_ref].node
       \/ node2 \notin heap[G_ref].node
       \/ has_edge(heap[G_ref], node1, node2)
    /\ UNCHANGED vars

\* 'done': create_custom_topology returns G
CustomDone ==
    /\ pc = "custom"
    /\ pc' = "menu"
    /\ current_topology' = G_ref
    /\ report' = [op |-> "create", name |-> "custom", size |-> "custom"]
    /\ UNCHANGED <<heap, args>>

\* choices 2, 4 and 5 with no topology loaded
MenuNoTopology ==
    /\ pc = "menu"
    /\ current_topology = None
    /\ report' = [op |-> "no_topology"]
    /\ UNCHANGED <<pc, heap, current_topology, args>>

\* an uncaught exception ends the session with exit code 1
AfterCall(raised) == IF raised THEN "error" ELSE "menu"

\* choice 2: analyze_topology(current_topology)
MenuAnalyze ==
    /\ pc = "menu"
    /\ current_topology # None
    /\ LET r == analyze_topology(heap[current_topology])
       IN  /\ report' = r
           /\ pc' = AfterCall(r.raised)
    /\ heap' = (current_topology :> heap[current_topology])
    /\ UNCHANGED <<current_topology, args>>

\* choice 4: export_topology_summary(current_topology, filename)
MenuExport ==
    /\ pc = "menu"
    /\ current_topology # None
    /\ LET m == add_topology_metrics(heap[current_topology])
       IN  /\ report' = [op |-> "export", raised |-> m.raised, metrics |-> m]
           /\ pc' = AfterCall(m.raised)
    /\ heap' = (current_topology :> heap[current_topology])
    /\ UNCHANGED <<current_topology, args>>

\* choice 5: simulate_failure(current_topology, node)
MenuSimulateFailure(node) ==
    /\ pc = "menu"
    /\ current_topology # None
    /\ LET r == simulate_failure((current_topology :> heap[current_topology]),
                                 current_topology, node)
       IN  /\ heap' = r.heap
           /\ report' = r.report
           /\ pc' = AfterCall(r.report.raised)
    /\ UNCHANGED <<current_topology, args>>

\* choice 0: sys.exit(0) ends the process and releases its objects
MenuExit ==
    /\ pc = "menu"
    /\ pc' = "exit"
    /\ heap' = NoAttrs
    /\ current_topology' = None
    /\ report' = [op |-> "exit"]
    /\ UNCHANGED args

CustomNames == {NumberedNames("R", MaxNodes)[i] : i \in 1..MaxNodes}

Next ==
    \/ \E name \in QuickNames, size \in QuickSizes : MenuCreateQuick(name, size)
    \/ MenuCreateNothing
    \/ \E k \in 1..MaxNodes : MenuCreateCustom(k)
    \/ \E node1, node2 \in CustomNames : CustomConnection(node1, node2)
    \/ \E node1, node2 \in CustomNames \cup {Absent} :
          CustomSkipped(node1, node2)
    \/ CustomDone
    \/ MenuNoTopology
    \/ MenuAnalyze
    \/ MenuExport
    \/ \E node \in CustomNames \cup {Absent} \cup
                    (IF current_topology = None THEN {}
                     ELSE heap[current_topology].node) :
          MenuSimulateFailure(node)
    \/ MenuExit

Spec == Init /\ [][Next]_vars

(* ---------------- calls of the generators and the metrics -------------- *)

\* the ids a caller passes: R1, R2, ...
Ids == {NumberedNames("R", MaxIds)[i] : i \in 1..MaxIds}

\* the lists of distinct ids
IdLists ==
    {l \in UNION {[1..k -> Ids] : k \in 0..MaxIds} :
        \A i, j \in DOMAIN l : i # j => l[i] # l[j]}

\* the group names of a node_groups dictionary: the three
\* create_hybrid_topology knows, and one it does not
GroupNames == {"core", "distribution", "access", "edge"}

\* the node_groups dictionaries passed to create_hybrid_topology: any of the
\* group names, each with a list of 0..MaxGroup ids of its own
NodeGroups ==
    {[g \in DOMAIN size |-> NumberedNames(g, size[g])] :
        size \in UNION {[S -> 0..MaxGroup] : S \in SUBSET GroupNames}}

\* the nodes argument of build_topology_by_type: None, or R1..RN
OptionalLists ==
    {[given |-> FALSE, list |-> <<>>]}
    \cup {[given |-> TRUE, list |-> NumberedNames("R", N)] : N \in 0..MaxIds}

\* the keyword arguments passed to build_topology_by_type
KeywordArguments ==
    {NoAttrs}
    \cup {[node_count |-> n] : n \in 0..MaxIds}
    \cup {[spine_count |-> sc, leaf_count |-> lc] : sc, lc \in 1..MaxCount}
    \cup {[branching_factor |-> b] : b \in 1..MaxBranching}
    \cup {[partial |-> FALSE]}

\* the streams of numbers the random source yields
Streams == [1..MaxStream -> 0..MaxDraw]

\* the calls a library run starts from, each with its arguments
Calls ==
    {[call |-> c, nodes |-> l] : c \in {"star", "ring", "mesh", "bus"}, l \in IdLists}
    \cup {[call |-> "tree", nodes |-> l, branching_factor |-> b] :
             l \in IdLists \cup {NumberedNames("R", N) : N \in 0..MaxTree},
             b \in 1..MaxBranching}
    \cup {[call |-> "spine_leaf", spine_count |-> sc, leaf_count |-> lc] :
             sc \in 0..MaxCount, lc \in 0..MaxCount}
    \cup {[call |-> "quick", name |-> n, size |-> z] :
             n \in QuickNames \cup {"unknown"}, z \in QuickSizes \cup {"other"}}
    \cup {[call |-> "hybrid", node_groups |-> g] : g \in NodeGroups}
    \cup {[call |-> "build", topology_type |-> t, nodes |-> l, kwargs |-> k] :
             t \in TopologyType \cup {"unknown"}, l \in OptionalLists,
             k \in KeywordArguments}
    \cup {[call |-> "partial_mesh", nodes |-> NumberedNames("R", N),
            rnd |-> RandomSource(NumberedNames("R", N), s)] :
             N \in 0..MaxMesh, s \in Streams}

InitGen ==
    /\ pc = "call"
    /\ heap = NoAttrs
    /\ current_topology = None
    /\ report = [op |-> "start"]
    /\ args \in Calls

\* the call returns G
Return(G) ==
    /\ heap' = (G_ref :> G)
    /\ pc' = "returned"
    /\ report' = [op |-> "generated"]
    /\ UNCHANGED <<current_topology, args>>

CallStar ==
    pc = "call" /\ args.call = "star" /\ Return(create_star_topology(args.nodes))

CallRing ==
    pc = "call" /\ args.call = "ring" /\ Return(create_ring_topology(args.nodes))

CallMesh ==
    /\ pc = "call" /\ args.call = "mesh"
    /\ Return(create_mesh_topology(args.nodes, FALSE, NoRandom))

CallBus ==
    pc = "call" /\ args.call = "bus" /\ Return(create_bus_topology(args.nodes))

CallTree ==
    /\ pc = "call" /\ args.call = "tree"
    /\ Return(create_tree_topology(args.nodes, args.branching_factor))

CallSpineLeaf ==
    /\ pc = "call" /\ args.call = "spine_leaf"
    /\ Return(create_spine_leaf_topology(args.spine_count, args.leaf_count))

CallQuick ==
    /\ pc = "call" /\ args.call = "quick"
    /\ LET r == quick_topology(args.name, args.size, NoRandom)
       IN  ~r.raised /\ Return(r.G)

CallPartialMesh ==
    /\ pc = "call" /\ args.call = "partial_mesh"
    /\ Return(create_mesh_topology(args.nodes, TRUE, args.rnd))

\* G = build_topology_by_type(topology_type, nodes, **kwargs)
CallBuild ==
    /\ pc = "call" /\ args.call = "build"
    /\ LET r == build_topology_by_type(args.topology_type, args.nodes,
                                       args.kwargs, NoRandom)
       IN  /\ ~r.raised
           /\ heap' = (G_ref :> r.G)
           /\ report' = [op |-> "built", unsupported |-> r.unsupported]
    /\ pc' = "returned"
    /\ UNCHANGED <<current_topology, args>>

CallHybrid ==
    /\ pc = "call" /\ args.call = "hybrid"
    /\ LET r == create_hybrid_topology(args.node_groups)
       IN  ~r.raised /\ Return(r.G)

\* metrics = add_topology_metrics(G) on the model a generator returned
CallMetrics ==
    /\ pc = "returned"
    /\ LET m == add_topology_metrics(heap[G_ref])
       IN  /\ report' = [op |-> "metrics", raised |-> m.raised, metrics |-> m]
           /\ pc' = IF m.raised THEN "error" ELSE "measured"
    /\ UNCHANGED <<heap, current_topology, args>>

NextGen ==
    \/ CallStar
    \/ CallRing
    \/ CallMesh
    \/ CallBus
    \/ CallTree
    \/ CallSpineLeaf
    \/ CallQuick
    \/ CallPartialMesh
    \/ CallHybrid
    \/ CallBuild
    \/ CallMetrics

SpecGen == InitGen /\ [][NextGen]_vars

(* ----------------------- runs of the link checks ----------------------- *)

\* the parsed configurations: device -> interfaces (the names only). R1 has
\* the interface G0, R2 has g1
parsed_configs ==
    (<<"R1">> :> [interfaces |-> {<<"G0">>}])
    @@ (<<"R2">> :> [interfaces |-> {<<"g1">>}])

\* the endpoints written in link lines: an interface of R1 in another case,
\* no ':', a device that is not configured, an interface R2 does not have
LinkEndpoints ==
    {<<"R1", ":", "G0">>, <<"R1">>, <<"R9", ":", "g0">>, <<"R2", ":", "g9">>}

\* the lines of a links file: blank lines, comments, lines without '-',
\* links written with and without spaces, a line with two '-'
LinkLines ==
    {<<>>, <<" ">>}
    \cup {<<"#", "R1", "-", "R2">>, <<" ", "#", " ", "R1", "-", "R2">>}
    \cup {<<"R1">>, <<"R1", ":", "G0">>, <<"R1", " ", "R2">>}
    \cup {l \o <<"-">> \o r : l, r \in LinkEndpoints}
    \cup {<<" ">> \o l \o <<" ", "-", " ">> \o r \o <<" ">> :
             l, r \in LinkEndpoints}
    \cup {<<"R1", "-", "R2", "-", "R9">>}

\* the links files: one that does not exist, and every file of up to
\* MaxLines lines
LinkFiles ==
    {[exists |-> FALSE, lines |-> <<>>]}
    \cup {[exists |-> TRUE, lines |-> l] :
             l \in UNION {[1..k -> LinkLines] : k \in 0..MaxLines}}

InitLinks ==
    /\ pc = "links_file"
    /\ heap = NoAttrs
    /\ current_topology = None
    /\ report = [op |-> "start"]
    /\ args \in {[call |-> "check_links", file |-> f] : f \in LinkFiles}

\* links = read_links(links_file_path)
ReadLinks ==
    /\ pc = "links_file"
    /\ pc' = "links_read"
    /\ report' = [op |-> "read_links", links |-> read_links(args.file)]
    /\ UNCHANGED <<heap, current_topology, args>>

\* check_links_vs_configs(parsed_configs, links)
CheckLinks ==
    /\ pc = "links_read"
    /\ pc' = "links_checked"
    /\ report' = [op |-> "check_links", links |-> report.links,
                  printed |-> check_links_vs_configs(parsed_configs,
                                                     report.links)]
    /\ UNCHANGED <<heap, current_topology, args>>

NextLinks ==
    \/ ReadLinks
    \/ CheckLinks

SpecLinks == InitLinks /\ [][NextLinks]_vars

(* ------------------------------ properties ----------------------------- *)

\* Connectivity stated without a traversal: start from one block per node and
\* merge the blocks every edge touches. The blocks left are the connected
\* components.
MergeEdge(P, e) ==
    LET touched == {B \in P : B \cap e # {}}
    IN  (P \ touched) \cup {UNION touched}

RECURSIVE MergeAll(_, _)
MergeAll(P, E) ==
    IF E = {} THEN P
    ELSE LET e == CHOOSE x \in E : TRUE IN MergeAll(MergeEdge(P, e), E \ {e})

Blocks(nodes, edges) == MergeAll({{v} : v \in nodes}, edges)

\* a graph with at least one node, all in one block
Connected(nodes, edges) == Cardinality(Blocks(nodes, edges)) = 1

\* the last operation was simulate_failure on a node of the topology
SimulatedFailure == report.op = "simulate_failure" /\ report.found

\* the object simulate_failure was called on, and its copy
Original == heap[G_ref]
FailedCopy == heap[G_failed_ref]

\* C1: simulate_failure(G, n) leaves the node set, the edge set and all node
\* and edge attributes of G as they were before the call, for every model G
\* and every node id n; the removal is applied to the copy only.
C1_SimulationLeavesOriginal ==
    [][(pc = "menu" /\ current_topology # None
        /\ report'.op = "simulate_failure")
       => (/\ current_topology' = current_topology
           /\ current_topology \in DOMAIN heap'
           /\ heap'[current_topology] = heap[current_topology])]_vars

\* C1 witness: a failure was simulated on a node that has attributes and
\* attributed edges; the copy has lost the node and its edges, the original
\* still has them.
C1_Witness ==
    /\ SimulatedFailure
    /\ report.neighbors # {}
    /\ "role" \in DOMAIN Original.nattr[report.node]
    /\ report.node \in Original.node /\ report.node \notin FailedCopy.node
    /\ \E e \in Original.edge : e \notin FailedCopy.edge

\* C2: simulate_failure with a node id that is not in the model is aborted: no
\* copy is made or modified, the original model is unchanged, and neither
\* CRITICAL nor remains-connected is reported.
C2_AbsentNodeAborts ==
    [][(pc = "menu" /\ current_topology # None
        /\ report'.op = "simulate_failure"
        /\ report'.node \notin heap[current_topology].node)
       => (/\ ~report'.found
           /\ report'.impact = "none"
           /\ ~report'.raised
           /\ heap' = (current_topology :> heap[current_topology])
           /\ current_topology' = current_topology
           /\ pc' = "menu")]_vars

\* C2 witness: simulate_failure was called on a topology with nodes, with a
\* node id that is none of them.
C2_Witness ==
    /\ report.op = "simulate_failure"
    /\ ~report.found
    /\ Original.node # {}
    /\ report.node \notin Original.node

\* the components simulate_failure lists are those of the original minus the
\* failed node: disjoint, non-empty, covering the remaining nodes
ComponentsAreThoseOfTheRest ==
    LET rest  == Original.node \ {report.node}
        redge == {e \in Original.edge : report.node \notin e}
    IN  /\ report.components = Blocks(rest, redge)
        /\ \A c \in report.components : c # {}
        /\ \A c, d \in report.components : c # d => c \cap d = {}
        /\ UNION report.components = rest

\* CRITICAL is reported exactly when the original is connected and the
\* original minus the failed node is not
CriticalExactlyWhenDisconnected ==
    LET rest  == Original.node \ {report.node}
        redge == {e \in Original.edge : report.node \notin e}
    IN  /\ (report.impact = "CRITICAL")
             <=> (Connected(Original.node, Original.edge) /\ ~Connected(rest, redge))
        /\ report.impact = "CRITICAL" => ComponentsAreThoseOfTheRest

\* C3: for every model G and every node n of G, simulate_failure classifies
\* the impact, as CRITICAL exactly when G is connected and G minus n is not,
\* and then the components it reports are the connected components of G
\* minus n.
C3_FailureIsClassified ==
    SimulatedFailure =>
        /\ report.impact \in {"CRITICAL", "remains_connected"}
        /\ Original.node # {report.node} => CriticalExactlyWhenDisconnected

\* What holds of simulate_failure instead: on a model with two nodes or more
\* the impact is classified as C3 says.
SimulationClassifiesBeyondOneNode ==
    (SimulatedFailure /\ Original.node # {report.node}) =>
        /\ report.impact \in {"CRITICAL", "remains_connected"}
        /\ CriticalExactlyWhenDisconnected

\* the hub of the 4-node star failed: 3 components of one node, no edge left
StarHubFailed ==
    /\ SimulatedFailure
    /\ Cardinality(Original.node) = 4
    /\ Original.nattr[report.node] = [role |-> "hub", device_type |-> "switch"]
    /\ report.impact = "CRITICAL"
    /\ Cardinality(report.components) = 3
    /\ \A c \in report.components : Cardinality(c) = 1
    /\ FailedCopy.edge = {}

\* C4: in a connected model, removing a node analyze_topology lists as an
\* articulation point makes simulate_failure find the copy disconnected
\* (more components than before), and removing a node that is not listed,
\* when the model has 3 nodes or more, leaves the copy connected.
C4_ArticulationPointsDisconnect ==
    (SimulatedFailure /\ Connected(Original.node, Original.edge)) =>
        LET listed == analyze_topology(Original).articulation_points
        IN  /\ report.node \in listed =>
                  /\ report.impact = "CRITICAL"
                  /\ Cardinality(report.components)
                        > Cardinality(Blocks(Original.node, Original.edge))
                  /\ ~Connected(FailedCopy.node, FailedCopy.edge)
            /\ (report.node \notin listed /\ Cardinality(Original.node) >= 3) =>
                  /\ report.impact = "remains_connected"
                  /\ Connected(FailedCopy.node, FailedCopy.edge)

\* C4 witness: a listed articulation point of a connected model was failed,
\* in a model that also has a node that is not an articulation point.
C4_Witness ==
    /\ SimulatedFailure
    /\ Connected(Original.node, Original.edge)
    /\ report.node \in analyze_topology(Original).articulation_points
    /\ report.impact = "CRITICAL"
    /\ Original.node \ analyze_topology(Original).articulation_points # {}

\* a library run has generated a model with the named call
Generated(call) == args.call = call /\ pc # "call"

\* the model the generator returned
Result == heap[G_ref]

\* the ids of a list
IdSet(l) == {l[i] : i \in DOMAIN l}

\* Distances stated on pairs: R holds the pairs joined by a walk of at most k
\* edges; one more edge extends it. In a connected graph the longest shortest
\* path is the least k at which R holds every pair.
OneMoreEdge(G, R) ==
    R \cup {<<x[1][1], x[2]>> :
               x \in {y \in R \X G.node : {y[1][2], y[2]} \in G.edge}}

RECURSIVE StepsToCover(_, _, _)
StepsToCover(G, R, k) ==
    IF R = G.node \X G.node THEN k
    ELSE StepsToCover(G, OneMoreEdge(G, R), k + 1)

LongestShortestPath(G) == StepsToCover(G, {<<v, v>> : v \in G.node}, 0)

\* the snapshot's diameter is the sentinel when the model is not connected
\* and the longest shortest path when it is
DiameterAsSpecified ==
    report.metrics.diameter =
        IF Connected(Result.node, Result.edge)
        THEN Finite(LongestShortestPath(Result))
        ELSE Infinite

\* C5: add_topology_metrics returns a metrics snapshot for every model
\* without raising, the empty model of a generator given too few ids or an
\* unknown shape name and disconnected models included; the diameter is the
\* 'infinite' sentinel when the model is not connected and the longest
\* shortest-path length when it is.
C5_MetricsForEveryModel ==
    report.op = "metrics" => (~report.raised /\ DiameterAsSpecified)

\* What holds of add_topology_metrics instead: a model with at least one node
\* gets its snapshot, with the diameter as C5 says.
MetricsBeyondEmptyModel ==
    (report.op = "metrics" /\ Result.node # {}) =>
        (~report.raised /\ DiameterAsSpecified)

\* the snapshot's density is 2E / (N (N - 1)) for N >= 2 and 0 for N < 2
DensityAsSpecified ==
    LET N == Cardinality(Result.node)
        E == Cardinality(Result.edge)
        d == report.metrics.density
    IN  IF N >= 2 THEN d[1] * (N * (N - 1)) = 2 * E * d[2]
        ELSE d = <<0, 1>>

\* C6: for every model with N nodes and E edges the density in the metrics
\* snapshot is 2*E / (N*(N-1)) when N >= 2 and 0 when N < 2 (N = 0 and N = 1).
C6_DensityInSnapshot ==
    report.op = "metrics" => (~report.raised /\ DensityAsSpecified)

\* What holds of add_topology_metrics instead: whenever a snapshot is
\* returned (the model has a node), its density is as C6 says.
DensityWhenSnapshotReturned ==
    (report.op = "metrics" /\ ~report.raised) => DensityAsSpecified

\* C7: for every list of N >= 3 distinct ids create_ring_topology returns a
\* model with exactly N nodes and N edges, every node of degree 2, connected.
C7_RingShape ==
    (Generated("ring") /\ Len(args.nodes) >= 3) =>
        /\ Result.node = IdSet(args.nodes)
        /\ Cardinality(Result.node) = Len(args.nodes)
        /\ Cardinality(Result.edge) = Len(args.nodes)
        /\ \A v \in Result.node : degree(Result, v) = 2
        /\ Connected(Result.node, Result.edge)

\* C7 witness: the smallest ring, of 3 ids, was generated.
C7_Witness ==
    /\ Generated("ring")
    /\ Len(args.nodes) = 3
    /\ Cardinality(Result.edge) = 3

\* C8: for every list of N >= 2 distinct ids create_star_topology returns a
\* model with exactly N-1 edges; the first id is the hub (role hub) of degree
\* N-1, every other id an endpoint (role endpoint) of degree 1, and each edge
\* joins the hub and a leaf.
C8_StarShape ==
    (Generated("star") /\ Len(args.nodes) >= 2) =>
        LET N   == Len(args.nodes)
            hub == args.nodes[1]
        IN  /\ Result.node = IdSet(args.nodes)
            /\ Cardinality(Result.edge) = N - 1
            /\ Result.nattr[hub].role = "hub"
            /\ degree(Result, hub) = N - 1
            /\ \A v \in Result.node \ {hub} :
                  /\ Result.nattr[v].role = "endpoint"
                  /\ degree(Result, v) = 1
            /\ \A e \in Result.edge :
                  \E v \in Result.node \ {hub} : e = {hub, v}

\* C8 witness: the star of the ids R1, R2, R3 was generated: 3 nodes, 2
\* edges, R1 of degree 2.
C8_Witness ==
    /\ Generated("star")
    /\ args.nodes = <<"R1", "R2", "R3">>
    /\ Cardinality(Result.edge) = 2
    /\ degree(Result, "R1") = 2

\* C9: for every list of N distinct ids create_mesh_topology with
\* partial=False returns a model with exactly N*(N-1)/2 edges, one for each
\* unordered pair of distinct ids, every node of degree N-1.
C9_FullMeshShape ==
    Generated("mesh") =>
        LET N == Len(args.nodes)
        IN  /\ Result.node = IdSet(args.nodes)
            /\ 2 * Cardinality(Result.edge) = N * (N - 1)
            /\ Result.edge = {{u, v} : u, v \in IdSet(args.nodes)}
                                \ {{u} : u \in IdSet(args.nodes)}
            /\ \A v \in Result.node : degree(Result, v) = N - 1

\* C9 witness: a full mesh of 4 ids with its 6 edges was generated.
C9_Witness ==
    /\ Generated("mesh")
    /\ Len(args.nodes) = 4
    /\ Cardinality(Result.edge) = 6

\* the nodes of the result with a role, and the roles an edge joins
WithRole(r) == {v \in Result.node : Result.nattr[v].role = r}
RolesOf(e) == {Result.nattr[v].role : v \in e}

\* C10: for all spine_count S >= 0 and leaf_count L >= 0
\* create_spine_leaf_topology returns a model with exactly S*L spine-leaf
\* edges (bandwidth 10000, mtu 9000) and exactly 2*L leaf-host edges
\* (bandwidth 1000, mtu 1500); every spine has degree L, every leaf degree
\* S+2, every host degree 1, and no edge joins two spines, two leaves or two
\* hosts.
C10_SpineLeafShape ==
    Generated("spine_leaf") =>
        LET S == args.spine_count
            L == args.leaf_count
            core == {e \in Result.edge : RolesOf(e) = {"spine", "leaf"}}
            host == {e \in Result.edge : RolesOf(e) = {"leaf", "host"}}
        IN  /\ Cardinality(WithRole("spine")) = S
            /\ Cardinality(WithRole("leaf")) = L
            /\ Cardinality(WithRole("host")) = 2 * L
            /\ Cardinality(core) = S * L
            /\ Cardinality(host) = 2 * L
            /\ Result.edge = core \cup host
            /\ \A e \in core : /\ Result.eattr[e].bandwidth = 10000
                                 /\ Result.eattr[e].mtu = 9000
            /\ \A e \in host : /\ Result.eattr[e].bandwidth = 1000
                                 /\ Result.eattr[e].mtu = 1500
            /\ \A v \in WithRole("spine") : degree(Result, v) = L
            /\ \A v \in WithRole("leaf") : degree(Result, v) = S + 2
            /\ \A v \in WithRole("host") : degree(Result, v) = 1
            /\ \A e \in Result.edge : Cardinality(RolesOf(e)) = 2

\* C10 witness: a fabric of 2 spines and 3 leaves was generated, with its 6
\* core edges and 6 host edges.
C10_Witness ==
    /\ Generated("spine_leaf")
    /\ args.spine_count = 2 /\ args.leaf_count = 3
    /\ Cardinality(Result.edge) = 12

\* a library run has called a generator with fewer ids than its shape needs
TooFewIds ==
    \/ Generated("star") /\ Len(args.nodes) < 2
    \/ Generated("ring") /\ Len(args.nodes) < 3
    \/ Generated("bus") /\ Len(args.nodes) < 2

\* C11: a generator given too few ids for its shape (star fewer than 2, ring
\* fewer than 3, bus fewer than 2) returns the empty model, 0 nodes and 0
\* edges, without raising, and none of the supplied ids is a node of it.
C11_TooFewIdsEmptyModel ==
    TooFewIds =>
        /\ pc \in {"returned", "measured", "error"}
        /\ Result.node = {} /\ Result.edge = {}
        /\ Result = EmptyGraph
        /\ IdSet(args.nodes) \cap Result.node = {}

\* C11 witness: the bus generator was given a single id and returned a model
\* with no node.
C11_Witness ==
    /\ Generated("bus")
    /\ Len(args.nodes) = 1
    /\ Result.node = {}

\* the ids of a group of the hybrid call; none when the group is not given
GroupIds(g) ==
    IF g \in DOMAIN args.node_groups THEN IdSet(args.node_groups[g]) ELSE {}

\* the edges of the result that join nodes of two different groups
CrossGroupEdges ==
    {e \in Result.edge :
        \E g, h \in DOMAIN args.node_groups :
            g # h /\ e \cap GroupIds(g) # {} /\ e \cap GroupIds(h) # {}}

\* the pairs the interconnection policy joins: the first 2 core ids with the
\* first 2 distribution ids, and every distribution id with the first access
\* id
CoreDistributionPairs ==
    IF {"core", "distribution"} \subseteq DOMAIN args.node_groups
    THEN LET core == args.node_groups["core"]
             dist == args.node_groups["distribution"]
         IN  {{core[i], dist[j]} : i \in 1..Min({2, Len(core)}),
                                   j \in 1..Min({2, Len(dist)})}
    ELSE {}

DistributionAccessPairs ==
    IF {"distribution", "access"} \subseteq DOMAIN args.node_groups
       /\ args.node_groups["access"] # <<>>
    THEN {{d, args.node_groups["access"][1]} : d \in GroupIds("distribution")}
    ELSE {}

\* C12: for every hybrid input with pairwise-disjoint groups of any sizes the
\* model has a fiber edge of bandwidth 10000 between core[i] and
\* distribution[j] for exactly the pairs i < min(2, |core|), j < min(2,
\* |distribution|), an ethernet edge of bandwidth 1000 between every
\* distribution id and access[0], and no other edge between nodes of two
\* different groups.
C12_HybridInterconnection ==
    Generated("hybrid") =>
        /\ \A e \in CoreDistributionPairs :
              /\ e \in Result.edge
              /\ Result.eattr[e].link_type = "fiber"
              /\ Result.eattr[e].bandwidth = 10000
        /\ \A e \in DistributionAccessPairs :
              /\ e \in Result.edge
              /\ Result.eattr[e].link_type = "ethernet"
              /\ Result.eattr[e].bandwidth = 1000
        /\ CrossGroupEdges = CoreDistributionPairs \cup DistributionAccessPairs

\* C12 witness: a hybrid of 3 core, 3 distribution and 2 access ids was
\* generated: 4 fiber edges and 3 distribution-access edges join the groups.
C12_Witness ==
    /\ Generated("hybrid")
    /\ DOMAIN args.node_groups = {"core", "distribution", "access"}
    /\ Len(args.node_groups["core"]) = 3
    /\ Len(args.node_groups["distribution"]) = 3
    /\ Len(args.node_groups["access"]) = 2
    /\ Cardinality(CoreDistributionPairs) = 4
    /\ Cardinality(CrossGroupEdges) = 7

\* what the random source returned to the partial mesh call
Drawn == args.rnd

\* the positions <<i, k>> of the loops at which the pair e was sampled, rnd
\* being what was drawn, and the first of them in loop order
SampledAt(rnd, e) ==
    {p \in (1..Len(args.nodes)) \X (1..3) :
        /\ p[2] <= Len(rnd.sample[p[1]])
        /\ e = {args.nodes[p[1]], rnd.sample[p[1]][p[2]]}}

FirstSampledAt(rnd, e) ==
    LET at == SampledAt(rnd, e)
    IN  CHOOSE p \in at :
            \A q \in at : p[1] < q[1] \/ (p[1] = q[1] /\ p[2] <= q[2])

\* C13: for every list of N distinct ids and every outcome of the random
\* choices, create_mesh_topology with partial=True returns a model with no
\* self-loop and at most one edge per unordered pair, every node of degree at
\* least min(3, N-1), every edge bandwidth in {100, 1000, 10000}, and an edge
\* already present keeps its attributes when a later node samples the same
\* pair.
C13_PartialMeshInvariants ==
    Generated("partial_mesh") =>
        LET N   == Len(args.nodes)
            rnd == Drawn
        IN  /\ Result.node = IdSet(args.nodes)
            /\ DOMAIN Result.eattr = Result.edge
            /\ 2 * Cardinality(Result.edge) <= N * (N - 1)
            /\ \A v \in Result.node : degree(Result, v) >= Min({3, N - 1})
            /\ \A e \in Result.edge :
                  LET first == FirstSampledAt(rnd, e)
                  IN  /\ e \subseteq Result.node /\ Cardinality(e) = 2
                      /\ SampledAt(rnd, e) # {}
                      /\ Result.eattr[e].bandwidth \in {100, 1000, 10000}
                      /\ Result.eattr[e] =
                            EdgeAttrs(rnd.choice[first[1]][first[2]],
                                      1500, "ethernet")

\* C13 witness: a partial mesh of 5 ids was generated in which one node has
\* more than 3 neighbours and another exactly 3, and a pair was sampled a
\* second time with another bandwidth drawn for it.
C13_Witness ==
    /\ Generated("partial_mesh")
    /\ Len(args.nodes) = 5
    /\ \E v \in Result.node : degree(Result, v) > 3
    /\ \E v \in Result.node : degree(Result, v) = 3
    /\ \E e \in Result.edge :
          \E p \in SampledAt(Drawn, e) :
              /\ p # FirstSampledAt(Drawn, e)
              /\ Drawn.choice[p[1]][p[2]] # Result.eattr[e].bandwidth

\* the tree call's list, the level attribute of a node of the result, and
\* the children of a node: its neighbours one level further from the root
TreeIds == args.nodes
LevelOf(v) == Result.nattr[v].level
ChildrenOf(v) == {c \in neighbors(Result, v) : LevelOf(c) = LevelOf(v) + 1}
ParentsOf(v) == {q \in neighbors(Result, v) : LevelOf(q) = LevelOf(v) - 1}

\* where an id stands in the list
IndexOf(v) == CHOOSE i \in DOMAIN TreeIds : TreeIds[i] = v

\* breadth-first in list order with full quotas: the id at position p > 1 of
\* the list hangs under the id at position (p - 2) \div bf + 1
ParentIndex(p) == ((p - 2) \div args.branching_factor) + 1

\* C14: for every id list and every branching_factor >= 1,
\* create_tree_topology makes ids[0] the root at level 0 and attaches the
\* remaining ids in list order, breadth-first: every parent has at most
\* branching_factor children, each attached id has exactly one edge to a
\* parent of the previous level and level = parent's level + 1, and a parent
\* later in the frontier receives children only after every earlier parent of
\* that level has received its full quota.
C14_TreeBreadthFirst ==
    (Generated("tree") /\ TreeIds # <<>>) =>
        LET N    == Len(TreeIds)
            bf   == args.branching_factor
            root == TreeIds[1]
        IN  /\ Result.node = IdSet(TreeIds)
            /\ Result.nattr[root].role = "root" /\ LevelOf(root) = 0
            /\ ParentsOf(root) = {}
            /\ Cardinality(Result.edge) = N - 1
            /\ \A v \in Result.node : Cardinality(ChildrenOf(v)) <= bf
            /\ \A p \in 2..N :
                  /\ Result.nattr[TreeIds[p]].role = "branch"
                  /\ ParentsOf(TreeIds[p]) = {TreeIds[ParentIndex(p)]}
                  /\ Cardinality(neighbors(Result, TreeIds[p]))
                        = 1 + Cardinality(ChildrenOf(TreeIds[p]))
            /\ \A p, q \in 2..N :
                  p < q => /\ LevelOf(TreeIds[p]) <= LevelOf(TreeIds[q])
                           /\ ParentIndex(p) <= ParentIndex(q)
            /\ \A v, w \in Result.node :
                  (/\ LevelOf(v) = LevelOf(w)
                   /\ IndexOf(v) < IndexOf(w)
                   /\ ChildrenOf(w) # {})
                  => Cardinality(ChildrenOf(v)) = bf

\* C14 witness: a tree of 6 ids with branching factor 2 was generated: the
\* second parent of level 1 has a child, the first has its two.
C14_Witness ==
    /\ Generated("tree")
    /\ Len(TreeIds) = 6 /\ args.branching_factor = 2
    /\ Cardinality(ChildrenOf(TreeIds[2])) = 2
    /\ ChildrenOf(TreeIds[3]) = {TreeIds[6]}
    /\ LevelOf(TreeIds[6]) = 2

\* the positions of a string that hold no blank
NonBlank(str) == {i \in DOMAIN str : str[i] # " "}

\* str from its first to its last non-blank character
Trim(str) ==
    IF NonBlank(str) = {} THEN <<>>
    ELSE SubSeq(str, Min(NonBlank(str)), Max(NonBlank(str)))

\* the line holds a link: it is not blank, is no comment and has a '-'
IsLinkLine(line) ==
    /\ Trim(line) # <<>>
    /\ Trim(line)[1] # "#"
    /\ \E i \in DOMAIN line : line[i] = "-"

\* pair is the line split at its first '-', both sides trimmed
PairOfLine(line, pair) ==
    \E k \in DOMAIN line :
        /\ line[k] = "-"
        /\ \A j \in 1..(k - 1) : line[j] # "-"
        /\ pair = <<Trim(SubSeq(line, 1, k - 1)),
                    Trim(SubSeq(line, k + 1, Len(line)))>>

\* the positions of the link lines in the file, in file order
LinkLinePositions ==
    SelectSeq([i \in DOMAIN args.file.lines |-> i],
              LAMBDA i : IsLinkLine(args.file.lines[i]))

\* read_links returned one pair for each link line, in file order
LinksAsRead ==
    /\ Len(report.links) = Len(LinkLinePositions)
    /\ \A n \in DOMAIN report.links :
          PairOfLine(args.file.lines[LinkLinePositions[n]], report.links[n])

\* the endpoints of the links, in the order they are checked
EndpointsOf(links) ==
    [n \in 1..(2 * Len(links)) |-> links[(n + 1) \div 2][2 - (n % 2)]]

HasColon(ep) == \E i \in DOMAIN ep : ep[i] = ":"

\* the device and the interface an endpoint with a ':' names
DeviceOf(ep) ==
    Trim(SubSeq(ep, 1, (CHOOSE k \in DOMAIN ep :
                           ep[k] = ":" /\ \A j \in 1..(k - 1) : ep[j] # ":") - 1))

InterfaceOf(ep) ==
    Trim(SubSeq(ep, (CHOOSE k \in DOMAIN ep :
                        ep[k] = ":" /\ \A j \in 1..(k - 1) : ep[j] # ":") + 1,
                Len(ep)))

\* the interface names are the same but for their case
SameButCase(a, b) == lower(a) = lower(b)

\* the endpoint names a configured device and none of its interfaces
InterfaceMissing(ep) ==
    /\ HasColon(ep)
    /\ DeviceOf(ep) \in DOMAIN parsed_configs
    /\ ~\E k \in parsed_configs[DeviceOf(ep)].interfaces :
           SameButCase(k, InterfaceOf(ep))

\* every endpoint without ':' is reported, every other endpoint is checked
EndpointsAsChecked ==
    LET eps == EndpointsOf(report.links)
        out == report.printed
    IN  /\ out.invalid = SelectSeq(eps, LAMBDA ep : ~HasColon(ep))
        /\ out.missing_devices =
              {DeviceOf(eps[n]) : n \in {m \in DOMAIN eps :
                  HasColon(eps[m]) /\ DeviceOf(eps[m]) \notin DOMAIN parsed_configs}}
        /\ Len(out.missing_interfaces)
              = Len(SelectSeq(eps, InterfaceMissing))
        /\ \A n \in DOMAIN out.missing_interfaces :
              LET ep == SelectSeq(eps, InterfaceMissing)[n]
              IN  out.missing_interfaces[n]
                    = DeviceOf(ep) \o <<":">> \o lower(InterfaceOf(ep))

\* C15: for every sequence of link-file lines, read_links returns, in file
\* order, exactly one (left, right) pair for each line that is non-blank,
\* does not start with '#' and contains '-' (split at the first '-', both
\* sides trimmed); blank, comment and '-'-less lines contribute nothing and
\* never stop later lines from being processed; in check_links_vs_configs an
\* endpoint without ':' is reported and skipped while every remaining
\* endpoint and link is still checked.
C15_LinkLinesAndEndpoints ==
    /\ (report.op = "read_links" /\ args.file.exists) => LinksAsRead
    /\ report.op = "check_links" => EndpointsAsChecked

\* C15 witness: a file whose first line has no '-' and whose second line
\* joins an endpoint without ':' to an interface R2 does not have was read
\* and checked: one link, one endpoint reported, one interface missing.
C15_Witness ==
    /\ report.op = "check_links"
    /\ Len(args.file.lines) = 2
    /\ ~IsLinkLine(args.file.lines[1]) /\ Trim(args.file.lines[1]) # <<>>
    /\ report.links = << <<(<<"R1">>), <<"R2", ":", "g9">> >> >>
    /\ report.printed.invalid = << <<"R1">> >>
    /\ report.printed.missing_interfaces = << <<"R2", ":", "g9">> >>

\* C16: whenever simulate_failure reports that the network remains connected
\* after the failure (the branch that is not CRITICAL), the copy the node was
\* removed from is connected; for every model, those already disconnected
\* before the removal included.
C16_RemainsConnectedIsConnected ==
    (SimulatedFailure /\ report.impact = "remains_connected") =>
        Connected(FailedCopy.node, FailedCopy.edge)

\* What holds of simulate_failure instead: when the model was connected
\* before the removal, the report that it remains connected is true of the
\* copy.
RemainsConnectedWhenOriginalWas ==
    (/\ SimulatedFailure
     /\ report.impact = "remains_connected"
     /\ Connected(Original.node, Original.edge)) =>
        Connected(FailedCopy.node, FailedCopy.edge)

\* a node of a model of three nodes and no edge was failed, and the network
\* was reported to remain connected
IsolatedNodesRemainConnected ==
    /\ SimulatedFailure
    /\ Cardinality(Original.node) = 3 /\ Original.edge = {}
    /\ report.impact = "remains_connected"
    /\ ~Connected(FailedCopy.node, FailedCopy.edge)

\* the subgraph the group's generator returned
GroupSubgraph(g) == hybrid_subgraph(g, args.node_groups[g])

\* every node of the hybrid model is a node of a group subgraph and carries
\* the device_type the group's generator gave it
NodesFromGroupGenerators ==
    \A v \in Result.node :
        \E g \in DOMAIN args.node_groups :
            /\ v \in GroupSubgraph(g).node
            /\ "device_type" \in DOMAIN Result.nattr[v]
            /\ Result.nattr[v].device_type = GroupSubgraph(g).nattr[v].device_type

\* C17: in every hybrid model, for groups of any sizes, each node was added
\* by its group's generator and carries that generator's device_type
\* attribute: the interconnection step never introduces a node that is
\* absent from the union of the group subgraphs.
C17_HybridNodesFromGenerators ==
    Generated("hybrid") => NodesFromGroupGenerators

\* What holds of create_hybrid_topology instead: the nodes all come from the
\* group generators when a distribution group has 3 ids or more and an
\* access group 2 or more.
HybridNodesWhenGroupsSuffice ==
    (/\ Generated("hybrid")
     /\ "distribution" \in DOMAIN args.node_groups
            => Len(args.node_groups["distribution"]) >= 3
     /\ "access" \in DOMAIN args.node_groups
            => Len(args.node_groups["access"]) >= 2)
    => NodesFromGroupGenerators

\* a hybrid of one core id and two distribution ids was generated: the ring
\* generator returned no node, and the two distribution ids are nodes of the
\* model with no attribute
DistributionNodesWithoutAttributes ==
    /\ Generated("hybrid")
    /\ DOMAIN args.node_groups = {"core", "distribution"}
    /\ Len(args.node_groups["core"]) = 1
    /\ Len(args.node_groups["distribution"]) = 2
    /\ GroupSubgraph("distribution").node = {}
    /\ \A v \in GroupIds("distribution") :
          v \in Result.node /\ Result.nattr[v] = NoAttrs

\* the id list build_topology_by_type works on: the one passed, or
\* node1..nodeK for the node_count given (5 by default)
BuildList ==
    IF args.nodes.given THEN args.nodes.list
    ELSE NumberedNames("node", Get(args.kwargs, "node_count", 5))

\* the model the generator of the topology type returns for the arguments
OwnGenerator(t) ==
    IF t = "star" THEN create_star_topology(BuildList)
    ELSE IF t = "ring" THEN create_ring_topology(BuildList)
    ELSE IF t = "mesh"
    THEN create_mesh_topology(BuildList, Get(args.kwargs, "partial", FALSE),
                              NoRandom)
    ELSE IF t = "tree"
    THEN create_tree_topology(BuildList,
                              Get(args.kwargs, "branching_factor", 2))
    ELSE IF t = "bus" THEN create_bus_topology(BuildList)
    ELSE IF t = "hybrid" THEN create_hybrid_topology(DefaultGroups).G
    ELSE create_spine_leaf_topology(Get(args.kwargs, "spine_count", 2),
                                    Get(args.kwargs, "leaf_count", 4))

\* the call was dispatched to the generator of its type, or, for a value
\* outside the enum, to the unsupported-type branch
DispatchedToOwnGenerator ==
    IF args.topology_type \in TopologyType
    THEN ~report.unsupported /\ Result = OwnGenerator(args.topology_type)
    ELSE report.unsupported /\ Result = EmptyGraph

\* C18: build_topology_by_type dispatches every TopologyType value to its
\* own generator whether or not an explicit nodes list is passed; SPINE_LEAF
\* with a nodes list that is not None returns the spine-leaf model for the
\* given spine_count and leaf_count, and the unsupported-type branch (empty
\* model) is reached only for values outside the enum.
C18_DispatchByType ==
    report.op = "built" => DispatchedToOwnGenerator

\* What holds of build_topology_by_type instead: the dispatch is as C18 says
\* unless SPINE_LEAF is passed together with a nodes list.
DispatchUnlessSpineLeafWithNodes ==
    (/\ report.op = "built"
     /\ ~(args.topology_type = "spine_leaf" /\ args.nodes.given))
    => DispatchedToOwnGenerator

\* SPINE_LEAF was passed with a nodes list and counts 1 and 2: the
\* unsupported-type branch returned the empty model
SpineLeafWithNodesUnsupported ==
    /\ report.op = "built"
    /\ args.topology_type = "spine_leaf" /\ args.nodes.given
    /\ args.kwargs = [spine_count |-> 1, leaf_count |-> 2]
    /\ report.unsupported
    /\ Result = EmptyGraph

\* a 'Create topology' choice that produces no model is made while a
\* topology is loaded
FailedCreateWhileLoaded ==
    /\ pc = "menu"
    /\ current_topology # None
    /\ report'.op = "create_nothing"

\* C19: across any sequence of main-menu choices, once a topology has been
\* loaded, a later 'Create topology' attempt that produces no model (invalid
\* topology choice, or custom topology with no node names) leaves the
\* previously loaded topology as the current one, so that the analyze, export
\* and failure choices still operate on it.
C19_FailedCreateKeepsTopology ==
    [][FailedCreateWhileLoaded
       => (/\ current_topology' = current_topology
           /\ current_topology \in DOMAIN heap'
           /\ heap'[current_topology] = heap[current_topology])]_vars

\* What holds of interactive_menu instead: after a 'Create topology' attempt
\* that produces no model, no topology is loaded, whatever was loaded before.
FailedCreateUnloadsTopology ==
    [][report'.op = "create_nothing" => current_topology' = None]_vars

====
